---------------------------- MODULE Spec2Model ----------------------------
(***************************************************************************)
(* Model of src/code/simulation.py: the spring-mesh force calculator, the  *)
(* leapfrog integration loop of simulate, and the resampling and export    *)
(* of the trajectory.                                                      *)
(*                                                                         *)
(* Numbers.  A float64 is modelled as a record: a finite value carried as  *)
(* an integer count of 1/Scale units (decimal fixed point, results of      *)
(* products, quotients and roots rounded to the nearest unit, ties to      *)
(* even), or one of the IEEE specials nan, +inf, -inf, which numpy         *)
(* produces (with a RuntimeWarning, not an exception) on division by zero. *)
(* The sign of zero is not modelled.  The one place where binary rounding  *)
(* decides an integer result, the sample indices                           *)
(* np.linspace(...) * len(time), is computed bit-exactly in round-to-      *)
(* nearest-even binary64 arithmetic on multi-limb naturals.                *)
(*                                                                         *)
(* The file system is the environment: each of the two writes of the       *)
(* export either succeeds or raises OSError.                               *)
(***************************************************************************)
EXTENDS Integers, Sequences, FiniteSets, TLC

\* ------------------------------------------------------------------ bounds
\* Mesh shape (rows, columns) of the grids handed to simulate.
NY == 3
NX == 3
\* Largest n_steps drawn by Init (physics-oriented inputs).
MaxSteps == 3
\* Largest n_steps and FPS drawn by InitExport (sampling-oriented inputs).
MaxStepsExport == 7
MaxFPSExport == 5
MaxFrames == 3          \* the viewer: frames loaded, at most
MaxEvents == 2          \* the viewer: events one pygame.event.get() returns

\* ------------------------------------------------------------- float64
\* Finite values are multiples of 1/Scale; ScaleDigits decimal digits.
ScaleDigits == 2
Scale == 100

Fin(v) == [k |-> "fin", v |-> v]
NaN == [k |-> "nan", v |-> 0]
Inf(s) == [k |-> "inf", v |-> s]
Zero == Fin(0)
Half == Fin(Scale \div 2)

IsFin(a) == a.k = "fin"
IsNaN(a) == a.k = "nan"
IsInf(a) == a.k = "inf"
Sign(v) == IF v > 0 THEN 1 ELSE IF v < 0 THEN -1 ELSE 0

\* n / d (d > 0) rounded to the nearest integer, ties to even.
RoundHalfEven(n, d) ==
    LET q == n \div d
        r == n % d
    IN  IF 2 * r < d THEN q
        ELSE IF 2 * r > d THEN q + 1
        ELSE IF q % 2 = 0 THEN q ELSE q + 1

\* n / d for any d # 0, rounded to nearest, ties to even.
RoundDiv(n, d) == IF d > 0 THEN RoundHalfEven(n, d) ELSE RoundHalfEven(-n, -d)

\* The largest r in lo .. hi with r * r <= n (bisection).
RECURSIVE ISqrtBetween(_, _, _)
ISqrtBetween(n, lo, hi) ==
    IF lo >= hi THEN lo
    ELSE LET mid == (lo + hi + 1) \div 2
         IN  IF mid * mid <= n THEN ISqrtBetween(n, mid, hi)
             ELSE ISqrtBetween(n, lo, mid - 1)
\* Nearest integer to the square root of n >= 0.
ISqrt(n) ==
    LET r == ISqrtBetween(n, 0, IF n < 46340 THEN n ELSE 46340)
    IN  IF n - r * r > r THEN r + 1 ELSE r

FNeg(a) ==
    IF IsNaN(a) THEN NaN
    ELSE IF IsInf(a) THEN Inf(-a.v)
    ELSE Fin(-a.v)

FAdd(a, b) ==
    IF IsNaN(a) \/ IsNaN(b) THEN NaN
    ELSE IF IsInf(a) /\ IsInf(b) THEN (IF a.v = b.v THEN a ELSE NaN)
    ELSE IF IsInf(a) THEN a
    ELSE IF IsInf(b) THEN b
    ELSE Fin(a.v + b.v)

FSub(a, b) == FAdd(a, FNeg(b))

FMul(a, b) ==
    IF IsNaN(a) \/ IsNaN(b) THEN NaN
    ELSE IF IsInf(a) \/ IsInf(b)
         THEN (IF Sign(a.v) * Sign(b.v) = 0 THEN NaN
               ELSE Inf(Sign(a.v) * Sign(b.v)))
    ELSE Fin(RoundHalfEven(a.v * b.v, Scale))

\* numpy float64 division: x/0 is +-inf, 0/0 is nan; no exception is raised.
FDiv(a, b) ==
    IF IsNaN(a) \/ IsNaN(b) THEN NaN
    ELSE IF IsInf(a) THEN (IF IsInf(b) THEN NaN
                           ELSE Inf(a.v * (IF b.v < 0 THEN -1 ELSE 1)))
    ELSE IF IsInf(b) THEN Zero
    ELSE IF b.v = 0 THEN (IF a.v = 0 THEN NaN ELSE Inf(Sign(a.v)))
    ELSE Fin(RoundDiv(a.v * Scale, b.v))

FSqrt(a) ==
    IF IsNaN(a) THEN NaN
    ELSE IF IsInf(a) THEN (IF a.v > 0 THEN a ELSE NaN)
    ELSE IF a.v < 0 THEN NaN
    ELSE Fin(ISqrt(a.v * Scale))

FSquare(a) == FMul(a, a)

RECURSIVE Pow10(_)
Pow10(n) == IF n = 0 THEN 1 ELSE 10 * Pow10(n - 1)

\* np.round(x, decimals): nearest multiple of 10^-decimals, ties to even;
\* nan and inf pass through.
FRound(a, decimals) ==
    IF ~IsFin(a) THEN a
    ELSE IF decimals >= ScaleDigits THEN a
    ELSE LET unit == Pow10(ScaleDigits - decimals)
         IN  Fin(RoundHalfEven(a.v, unit) * unit)

\* int(x) of a finite float: truncation toward zero.
FTrunc(a) == IF a.v >= 0 THEN a.v \div Scale ELSE -((-a.v) \div Scale)

\* --------------------------------------------------------------- grids
Rows == 0 .. (NY - 1)
Cols == 0 .. (NX - 1)
Cells == Rows \X Cols

IsBorder(c) == c[1] = 0 \/ c[1] = NY - 1 \/ c[2] = 0 \/ c[2] = NX - 1

\* np.zeros((ny, nx))
Zeros == [c \in Cells |-> Zero]

\* The stencil started one row and one column early: range(0, ny - 1) x
\* range(0, nx - 1).
InteriorFromZero == (0 .. (NY - 2)) \X (0 .. (NX - 2))

\* range(1, ny - 1) x range(1, nx - 1): the cells the stencil visits.
Interior == (1 .. (NY - 2)) \X (1 .. (NX - 2))

\* displacements = [(0, -1), (-1, 0), (0, 1), (1, 0)]
displacements == << <<0, -1>>, <<-1, 0>>, <<0, 1>>, <<1, 0>> >>

\* pos[i + dx, j + dy]: numpy indexing, where a negative index counts from
\* the end of the axis.
Neighbour(c, d) == <<(c[1] + d[1] + NY) % NY, (c[2] + d[2] + NX) % NX>>

\* One spring's contribution to forces[i, j] (lines 68-74).
SpringForce(p, c, d, elastic_constant, natural_length, particle_separation) ==
    LET n == Neighbour(c, d)
        diff == FSub(p[c], p[n])
        length == FSqrt(FAdd(FSquare(particle_separation), FSquare(diff)))
        elongation == FSub(length, natural_length)
    IN  FDiv(FMul(FMul(FNeg(elastic_constant), elongation), diff), length)

\* A spring of length 0 (division by zero in line 74).
ZeroLength(p, c, d, particle_separation) ==
    LET n == Neighbour(c, d)
        diff == FSub(p[c], p[n])
    IN  FSqrt(FAdd(FSquare(particle_separation), FSquare(diff))) = Zero

RECURSIVE SumSprings(_, _, _, _, _, _, _)
SumSprings(acc, p, c, m, elastic_constant, natural_length, particle_separation) ==
    IF m > Len(displacements) THEN acc
    ELSE SumSprings(
            FAdd(acc, SpringForce(p, c, displacements[m], elastic_constant,
                                  natural_length, particle_separation)),
            p, c, m + 1, elastic_constant, natural_length, particle_separation)

\* forces = np.zeros(...); only the interior cells are written.
_calculate_forces(p, elastic_constant, natural_length, particle_separation) ==
    [c \in Cells |->
        IF c \in Interior
        THEN SumSprings(Zeros[c], p, c, 1, elastic_constant, natural_length,
                        particle_separation)
        ELSE Zeros[c]]

\* ------------------------------------------- binary64 sample indices
\* np.linspace(0, 1, num, endpoint=False) * length, cast to int64, is
\* computed as numpy does: step = 1.0 / num, y[k] = k * step, then
\* y[k] * length, each result rounded to a 53-bit significand (round to
\* nearest, ties to even), then truncated.  Naturals wider than 31 bits are
\* little-endian sequences of LimbBits-bit limbs.
MantissaBits == 53
LimbBits == 18
LimbBase == 2 ^ LimbBits
\* 2^RecipBits / num has more than MantissaBits bits for every num < 2^13.
RecipLimbs == 4
RecipBits == RecipLimbs * LimbBits

RECURSIVE BigMulSmallFrom(_, _, _, _)
BigMulSmallFrom(x, c, i, carry) ==
    IF i > Len(x) THEN (IF carry = 0 THEN <<>> ELSE <<carry>>)
    ELSE LET t == x[i] * c + carry
         IN  <<t % LimbBase>> \o BigMulSmallFrom(x, c, i + 1, t \div LimbBase)
BigMulSmall(x, c) == BigMulSmallFrom(x, c, 1, 0)

RECURSIVE BigDivSmallFrom(_, _, _, _)
BigDivSmallFrom(x, n, i, rem) ==
    IF i = 0 THEN [q |-> <<>>, r |-> rem]
    ELSE LET t == rem * LimbBase + x[i]
             rest == BigDivSmallFrom(x, n, i - 1, t % n)
         IN  [q |-> Append(rest.q, t \div n), r |-> rest.r]
BigDivSmall(x, n) == BigDivSmallFrom(x, n, Len(x), 0)

\* Limb i of x, 0 beyond its length.
BigLimb(x, i) == IF i >= 1 /\ i <= Len(x) THEN x[i] ELSE 0

\* Bit b (0 the lowest) of x.
BigBit(x, b) == (BigLimb(x, b \div LimbBits + 1) \div (2 ^ (b % LimbBits))) % 2

\* Whether x mod 2^b is nonzero.
BigLowBitsSet(x, b) ==
    \/ \E i \in 1 .. Len(x) : i <= b \div LimbBits /\ x[i] # 0
    \/ BigLimb(x, b \div LimbBits + 1) % (2 ^ (b % LimbBits)) # 0

\* floor(x / 2^s)
BigShr(x, s) ==
    LET q == s \div LimbBits
        r == s % LimbBits
    IN  [i \in 1 .. Len(x) |->
            BigLimb(x, i + q) \div (2 ^ r)
            + (BigLimb(x, i + q + 1) % (2 ^ r)) * (2 ^ (LimbBits - r))]

BigIsOdd(x) == Len(x) > 0 /\ x[1] % 2 = 1

RECURSIVE BigIncFrom(_, _)
BigIncFrom(x, i) ==
    IF i > Len(x) THEN <<1>>
    ELSE IF x[i] + 1 < LimbBase THEN <<x[i] + 1>> \o SubSeq(x, i + 1, Len(x))
    ELSE <<0>> \o BigIncFrom(x, i + 1)
BigInc(x) == BigIncFrom(x, 1)

RECURSIVE IntBitLen(_)
IntBitLen(v) == IF v = 0 THEN 0 ELSE 1 + IntBitLen(v \div 2)

RECURSIVE BigBitLenFrom(_, _)
BigBitLenFrom(x, i) ==
    IF i = 0 THEN 0
    ELSE IF x[i] # 0 THEN (i - 1) * LimbBits + IntBitLen(x[i])
    ELSE BigBitLenFrom(x, i - 1)
BigBitLen(x) == BigBitLenFrom(x, Len(x))

RECURSIVE BigToIntFrom(_, _)
BigToIntFrom(x, i) ==
    IF i > Len(x) THEN 0 ELSE x[i] + LimbBase * BigToIntFrom(x, i + 1)
BigToInt(x) == BigToIntFrom(x, 1)

\* x (with `inexact` saying that bits below x were already dropped) rounded
\* to MantissaBits bits, ties to even: the significand and the bits shifted.
RoundToMantissa(x, inexact) ==
    LET len == BigBitLen(x)
        s == IF len > MantissaBits THEN len - MantissaBits ELSE 0
        m == BigShr(x, s)
        guard == s > 0 /\ BigBit(x, s - 1) = 1
        sticky == inexact \/ (s > 1 /\ BigLowBitsSet(x, s - 1))
        up == guard /\ (sticky \/ BigIsOdd(m))
    IN  [m |-> IF up THEN BigInc(m) ELSE m, sh |-> s]

\* step = delta / div = 1.0 / num as a binary64: m * 2^e.
FlRecip(num) ==
    LET one == [i \in 1 .. (RecipLimbs + 1) |-> IF i = RecipLimbs + 1 THEN 1 ELSE 0]
        d == BigDivSmall(one, num)
        r == RoundToMantissa(d.q, d.r # 0)
    IN  [m |-> r.m, e |-> r.sh - RecipBits]

\* A binary64 times a small non-negative integer, rounded.
FlMulInt(a, c) ==
    LET r == RoundToMantissa(BigMulSmall(a.m, c), FALSE)
    IN  [m |-> r.m, e |-> a.e + r.sh]

\* astype(np.int64) of a non-negative binary64 below 2^31: truncation.
FlToInt(a) == BigToInt(BigShr(a.m, -a.e))

\* (np.linspace(0, 1, num, endpoint=False) * length).astype(np.int64)[k]
linspace_idx(k, num, length) ==
    FlToInt(FlMulInt(FlMulInt(FlRecip(num), k), length))

\* The indices with endpoint=True: step = 1.0 / (num - 1), so that the last
\* sample is 1.0 * length.
sample_idx_endpoint(num, length) ==
    [k \in 1 .. num |->
        IF num = 1 THEN 0
        ELSE IF k = num THEN length
        ELSE linspace_idx(k - 1, num - 1, length)]

\* The indices of one frame too many: np.linspace(0, 1, num + 1, ...).
sample_idx_extra(num, length) ==
    [k \in 1 .. (num + 1) |-> linspace_idx(k - 1, num + 1, length)]

\* idx (lines 167-168), as a sequence whose element k + 1 is idx[k].
sample_idx(num, length) == [k \in 1 .. num |-> linspace_idx(k - 1, num, length)]

\* The check of the number of samples made strict: num <= 0 raises.
linspace_raises_strict(num) == num <= 0

\* np.linspace raises ValueError for a negative number of samples.
linspace_raises(num) == num < 0

\* ------------------------------------------------------ simulate: state
VARIABLES
    masses,               \* masses: grid of float64
    initial_pos,          \* initial_pos: grid of float64
    particle_types,       \* particle_types: grid of 0 (static) / 1 (dynamic)
    elastic_constant,
    natural_length,
    particle_separation,
    timestep,
    n_steps,
    FPS,                  \* CONFIG["FPS"]
    DATAFRAME_DECIMALS,   \* CONFIG["DATAFRAME_DECIMALS"]
    pc,                   \* "call", "loop", "csv", "pkl", "done", "error"
    step,                 \* the loop variable of line 126
    time,                 \* time[s + 1] is time[s] of the source (the whole
                          \* history; rounded once line 162 has run)
    pos,                  \* pos[s + 1] is the grid pos[s] of the source (the
                          \* whole history; rounded once line 163 has run)
    vel,                  \* vel[s + 1] is the grid vel[s] of the source
    forces_then,          \* the last value of forces_then (line 132)
    forces_now,           \* the last value of forces_now (line 145)
    fault,                \* a division by zero has happened in the loop
    n_rows,               \* line 166
    idx,                  \* lines 167-168
    out_time,             \* `time` after lines 169-170
    out_pos,              \* `pos` after line 171
    csv_file,             \* results/<filename>/time.csv
    pkl_file,             \* results/<filename>/data.pkl
    err                   \* the exception that ended the run, or "none"

\* A second call of simulate on the same arguments runs beside the first.
\* The variables pc .. out_pos and err above are the locals of the call that
\* is running; `other` is the locals of the call that is waiting its turn.
\* The arguments, CONFIG and the two files are the same for both calls.
VARIABLES
    other

\* animation.py: the state of the Animation object and of its run loop.
VARIABLES
    frames,               \* len(self.data), also the length of self.time
    self_idx,             \* self.idx
    running,              \* self.running
    debugging,            \* self.debugging
    pause_active,         \* the active flag of self.pause_text
    shown,                \* the index of the frame the mesh was last given
    batch,                \* the list pygame.event.get() returned
    handled,              \* how many events of the batch the loop has seen
    began_at,             \* self.idx when this iteration of run began
    at                    \* "closed", "poll", "events", "read", "tick",
                          \* "exit" (sys.exit), "error" (IndexError)

inputs == <<masses, initial_pos, particle_types, elastic_constant,
            natural_length, particle_separation, timestep, n_steps, FPS,
            DATAFRAME_DECIMALS>>
history == <<time, pos, vel, forces_then, forces_now, fault>>
export == <<n_rows, idx, out_time, out_pos>>
files == <<csv_file, pkl_file>>
viewer == <<frames, self_idx, running, debugging, pause_active, shown, batch,
            handled, began_at, at>>
outside == <<other, viewer>>
vars == <<inputs, pc, step, history, export, files, err, outside>>

\* A grid with one value on the border cells and one on the interior cells.
Grid(border, interior) ==
    [c \in Cells |-> IF IsBorder(c) THEN border ELSE interior]

\* The values the configuration grids and scalars are drawn from.
TypeValues == {0, 1}
MassValues == {Zero, Fin(Scale)}
PosValues == {Zero, Fin(Scale \div 2)}
ElasticValues == {Zero, Fin(Scale)}
LengthValues == {Fin(Scale \div 2)}
SeparationValues == {Zero, Fin(Scale)}
TimestepValues == {Fin(-(Scale \div 2)), Zero, Fin(Scale \div 2), Fin(Scale)}
DecimalsValues == {0, ScaleDigits}
FPSValues == {2}
ExportDecimalsValues == 0 .. ScaleDigits

\* Before simulate's first line; no array exists yet.
\* The locals of a call that has not started.
NotCalled ==
    [pc |-> "call", step |-> 0, time |-> <<>>, pos |-> <<>>, vel |-> <<>>,
     forces_then |-> Zeros, forces_now |-> Zeros, fault |-> FALSE,
     n_rows |-> 0, idx |-> <<>>, out_time |-> <<>>, out_pos |-> <<>>,
     err |-> "none"]

Blank ==
    /\ pc = "call"
    /\ step = 0
    /\ time = <<>>
    /\ pos = <<>>
    /\ vel = <<>>
    /\ forces_then = Zeros
    /\ forces_now = Zeros
    /\ fault = FALSE
    /\ n_rows = 0
    /\ idx = <<>>
    /\ out_time = <<>>
    /\ out_pos = <<>>
    /\ csv_file = "absent"
    /\ pkl_file = "absent"
    /\ err = "none"
    /\ other = NotCalled

\* The viewer has not been opened.
Closed ==
    /\ at = "closed"
    /\ frames = 0
    /\ self_idx = 0
    /\ running = FALSE
    /\ debugging = FALSE
    /\ pause_active = TRUE
    /\ shown = 0
    /\ batch = <<>>
    /\ handled = 0
    /\ began_at = 0

\* main: the configuration read from the files is handed to simulate.
Init ==
    /\ particle_types \in {Grid(b, n) : b \in TypeValues, n \in TypeValues}
    /\ masses \in {Grid(b, n) : b \in MassValues, n \in MassValues}
    /\ initial_pos \in {Grid(b, n) : b \in PosValues, n \in PosValues}
    /\ elastic_constant \in ElasticValues
    /\ natural_length \in LengthValues
    /\ particle_separation \in SeparationValues
    /\ timestep \in TimestepValues
    /\ n_steps \in 1 .. MaxSteps
    /\ FPS \in FPSValues
    /\ DATAFRAME_DECIMALS \in DecimalsValues
    /\ Blank
    /\ Closed

\* The same program on a single mesh, with the step count, the frame rate
\* and the timestep ranging wider: the inputs that drive the resampling.
ExportTimestepValues ==
    {Fin(-(Scale \div 2)), Zero, Fin(Scale \div 4), Fin((2 * Scale) \div 5),
     Fin(Scale)}

InitExport ==
    /\ particle_types = Grid(0, 1)
    /\ masses = Grid(Fin(Scale), Fin(Scale))
    /\ initial_pos = Grid(Zero, Fin(Scale \div 2))
    /\ elastic_constant = Fin(Scale)
    /\ natural_length = Fin(Scale \div 2)
    /\ particle_separation = Fin(Scale)
    /\ timestep \in ExportTimestepValues
    /\ n_steps \in 1 .. MaxStepsExport
    /\ FPS \in 1 .. MaxFPSExport
    /\ DATAFRAME_DECIMALS \in ExportDecimalsValues
    /\ Blank
    /\ Closed

\* Two calls of simulate on the same arguments, on meshes of every mask,
\* with borders and interiors displaced or not, forwards and backwards in
\* time.
PairTimestepValues == {Fin(-(Scale \div 2)), Fin(Scale \div 2)}

InitPair ==
    /\ particle_types \in {Grid(b, n) : b \in TypeValues, n \in TypeValues}
    /\ masses \in {Grid(Fin(Scale), n) : n \in MassValues}
    /\ initial_pos \in {Grid(b, n) : b \in PosValues, n \in PosValues}
    /\ elastic_constant = Fin(Scale)
    /\ natural_length = Fin(Scale \div 2)
    /\ particle_separation = Fin(Scale)
    /\ timestep \in PairTimestepValues
    /\ n_steps \in 1 .. MaxSteps
    /\ FPS \in FPSValues
    /\ DATAFRAME_DECIMALS \in DecimalsValues
    /\ Blank
    /\ Closed

\* ------------------------------------------------------ simulate: steps
\* The mask inverted: grid[particle_types == 1] = 0.
MaskDynamic(grid) ==
    [c \in Cells |-> IF particle_types[c] = 1 THEN Zero ELSE grid[c]]

\* grid[particle_types == 0] = 0
MaskStatic(grid) ==
    [c \in Cells |-> IF particle_types[c] = 0 THEN Zero ELSE grid[c]]

\* pos[:, particle_types == 0] = 0, on every step of the array.
MaskAll(arr) == [s \in 1 .. Len(arr) |-> MaskStatic(arr[s])]

\* forces / masses, element by element.
Acc(forces) == [c \in Cells |-> FDiv(forces[c], masses[c])]

\* A division by zero in one evaluation of the forces on grid p, or in the
\* division of the forces by the mass of a dynamic particle.
DivisionByZero(p) ==
    \/ \E c \in Cells : particle_types[c] = 1 /\ masses[c] = Zero
    \/ \E c \in Interior : \E m \in 1 .. Len(displacements) :
          ZeroLength(p, c, displacements[m], particle_separation)

\* np.empty in place of np.zeros: an array that is allocated while the
\* other call holds arrays starts from what that call last wrote.
Uninitialised(arr, blank) ==
    [s \in 1 .. n_steps |->
        IF other.pc = "call" THEN blank ELSE arr[other.step]]

\* Lines 119-123 with np.empty for np.zeros.
StartUninitialised ==
    /\ pc = "call"
    /\ time' = Uninitialised(other.time, Zero)
    /\ pos' = MaskAll([s \in 1 .. n_steps |->
                          IF s = 1 THEN initial_pos
                          ELSE Uninitialised(other.pos, Zeros)[s]])
    /\ vel' = Uninitialised(other.vel, Zeros)
    /\ step' = 1
    /\ pc' = "loop"
    /\ UNCHANGED <<inputs, outside, forces_then, forces_now, fault, export,
                   files, err>>

\* Lines 119-123: the arrays are allocated and the initial state is set.
Start ==
    /\ pc = "call"
    /\ time' = [s \in 1 .. n_steps |-> Zero]
    /\ pos' = MaskAll([s \in 1 .. n_steps |->
                          IF s = 1 THEN initial_pos ELSE Zeros])
    /\ vel' = [s \in 1 .. n_steps |-> Zeros]
    /\ step' = 1
    /\ pc' = "loop"
    /\ UNCHANGED <<inputs, outside, forces_then, forces_now, fault, export, files, err>>

\* Lines 131-157: one iteration of the integration loop.
Integrate ==
    /\ pc = "loop"
    /\ step < n_steps
    /\ LET then == _calculate_forces(pos[step], elastic_constant,
                                     natural_length, particle_separation)
           acc_then == Acc(then)
           dt2 == FSquare(timestep)
           moved == [c \in Cells |->
                        FAdd(FAdd(pos[step][c], FMul(vel[step][c], timestep)),
                             FMul(FMul(Half, acc_then[c]), dt2))]
           pos1 == MaskAll([pos EXCEPT ![step + 1] = moved])
           now == _calculate_forces(pos1[step + 1], elastic_constant,
                                    natural_length, particle_separation)
           acc_now == Acc(now)
           kicked == [c \in Cells |->
                        FAdd(vel[step][c],
                             FMul(FMul(Half, FAdd(acc_then[c], acc_now[c])),
                                  timestep))]
       IN  /\ forces_then' = then
           /\ pos' = pos1
           /\ forces_now' = now
           /\ vel' = MaskAll([vel EXCEPT ![step + 1] = kicked])
           /\ time' = [time EXCEPT ![step + 1] = FAdd(time[step], timestep)]
           /\ fault' = (fault \/ DivisionByZero(pos[step])
                              \/ DivisionByZero(pos1[step + 1]))
    /\ step' = step + 1
    /\ UNCHANGED <<inputs, outside, pc, export, files, err>>

\* Lines 159-163: the rounded time table and the rounded history.
RoundedTime == [s \in 1 .. Len(time) |-> FRound(time[s], DATAFRAME_DECIMALS)]
RoundedPos ==
    [s \in 1 .. Len(pos) |->
        [c \in Cells |-> FRound(pos[s][c], DATAFRAME_DECIMALS)]]

\* Line 166: int(CONFIG["FPS"] * time["Time"].to_numpy()[-1])
NRows == FTrunc(FMul(Fin(FPS * Scale), RoundedTime[Len(time)]))

LoopDone == pc = "loop" /\ step = n_steps

\* Lines 167-168; np.linspace is not reached with a negative n_rows.
SampleIdx == IF linspace_raises(NRows) THEN <<>> ELSE sample_idx(NRows, Len(time))

\* time.iloc[idx] and pos[idx] raise IndexError for an index outside the
\* history.
index_error(ix, length) == \E k \in 1 .. Len(ix) : ix[k] < 0 \/ ix[k] >= length

\* arr[ix]: the entries of arr at the (0-based) indices ix, in that order.
Take(arr, ix) == [k \in 1 .. Len(ix) |-> arr[ix[k] + 1]]

\* Lines 159-171: round, count the frames, pick the sample indices.
Resample ==
    /\ LoopDone
    /\ ~linspace_raises(NRows)
    /\ ~index_error(SampleIdx, Len(time))
    /\ time' = RoundedTime
    /\ pos' = RoundedPos
    /\ n_rows' = NRows
    /\ idx' = SampleIdx
    /\ out_time' = Take(RoundedTime, SampleIdx)
    /\ out_pos' = Take(RoundedPos, SampleIdx)
    /\ pc' = "csv"
    /\ UNCHANGED <<inputs, outside, step, vel, forces_then, forces_now, fault, files, err>>

\* Lines 159-171 ending in an exception: np.linspace raises ValueError for
\* a negative n_rows (line 167), indexing raises IndexError (lines 169, 171).
ResampleRaises ==
    /\ LoopDone
    /\ linspace_raises(NRows) \/ index_error(SampleIdx, Len(time))
    /\ time' = RoundedTime
    /\ pos' = RoundedPos
    /\ n_rows' = NRows
    /\ idx' = SampleIdx
    /\ pc' = "error"
    /\ err' = IF linspace_raises(NRows) THEN "ValueError" ELSE "IndexError"
    /\ UNCHANGED <<inputs, outside, step, vel, forces_then, forces_now, fault,
                   out_time, out_pos, files>>

\* Line 173: time.to_csv(...) writes time.csv.
WriteCsv ==
    /\ pc = "csv"
    /\ csv_file' = "complete"
    /\ pc' = "pkl"
    /\ UNCHANGED <<inputs, outside, step, history, export, pkl_file, err>>

\* Line 173 failing to open time.csv (OSError): no file is left.
WriteCsvFails ==
    /\ pc = "csv"
    /\ pc' = "error"
    /\ err' = "OSError"
    /\ UNCHANGED <<inputs, outside, step, history, export, files>>

\* Lines 174-176: open, pickle.dump, close.
WritePkl ==
    /\ pc = "pkl"
    /\ pkl_file' = "complete"
    /\ pc' = "done"
    /\ UNCHANGED <<inputs, outside, step, history, export, csv_file, err>>

\* Line 174 (open) failing leaves no data.pkl; line 175 (pickle.dump)
\* failing leaves the truncated file that open created.
WritePklFails ==
    /\ pc = "pkl"
    /\ pkl_file' \in {"absent", "partial"}
    /\ pc' = "error"
    /\ err' = "OSError"
    /\ UNCHANGED <<inputs, outside, step, history, export, csv_file>>

Next ==
    \/ Start
    \/ Integrate
    \/ Resample
    \/ ResampleRaises
    \/ WriteCsv
    \/ WriteCsvFails
    \/ WritePkl
    \/ WritePklFails

Spec == Init /\ [][Next]_vars

SpecExport == InitExport /\ [][Next]_vars

\* The locals of the running call.
Locals ==
    [pc |-> pc, step |-> step, time |-> time, pos |-> pos, vel |-> vel,
     forces_then |-> forces_then, forces_now |-> forces_now, fault |-> fault,
     n_rows |-> n_rows, idx |-> idx, out_time |-> out_time,
     out_pos |-> out_pos, err |-> err]

\* The running call is suspended between two of its steps and the waiting
\* call resumes; the arguments, CONFIG and the files are shared by both.
Switch ==
    /\ other' = Locals
    /\ pc' = other.pc
    /\ step' = other.step
    /\ time' = other.time
    /\ pos' = other.pos
    /\ vel' = other.vel
    /\ forces_then' = other.forces_then
    /\ forces_now' = other.forces_now
    /\ fault' = other.fault
    /\ n_rows' = other.n_rows
    /\ idx' = other.idx
    /\ out_time' = other.out_time
    /\ out_pos' = other.out_pos
    /\ err' = other.err
    /\ UNCHANGED <<inputs, files, viewer>>

NextPair == Next \/ Switch

\* Two calls of simulate on the same arguments, interleaved step by step.
SpecPair == InitPair /\ [][NextPair]_vars

\* --------------------------------------------------------------- viewer
\* The kinds of event the loop tells apart: the keys P, R and D, QUIT or
\* the ESCAPE key, and every other event.
EventKinds == {"p", "r", "d", "quit", "other"}

Batches == UNION {[1 .. n -> EventKinds] : n \in 0 .. MaxEvents}

\* Animation.__init__ and main: the frames are loaded, the startup flags
\* are read from the configuration, frame 0 is given to the mesh and the
\* pause text is created active. simulate is not running.
InitAnim ==
    /\ particle_types = Grid(0, 1)
    /\ masses = Grid(Fin(Scale), Fin(Scale))
    /\ initial_pos = Grid(Zero, Fin(Scale \div 2))
    /\ elastic_constant = Fin(Scale)
    /\ natural_length = Fin(Scale \div 2)
    /\ particle_separation = Fin(Scale)
    /\ timestep = Fin(Scale \div 2)
    /\ n_steps = 1
    /\ FPS \in FPSValues
    /\ DATAFRAME_DECIMALS = ScaleDigits
    /\ Blank
    /\ frames \in 1 .. MaxFrames
    /\ self_idx = 0
    /\ running \in BOOLEAN
    /\ debugging \in BOOLEAN
    /\ pause_active = TRUE
    /\ shown = 0
    /\ batch = <<>>
    /\ handled = 0
    /\ began_at = 0
    /\ at = "poll"

simulation == <<inputs, pc, step, history, export, files, err, other>>

\* self.idx > len(self.data)
PastEndStrict == self_idx > frames

\* Line 148: self.idx >= len(self.data)
PastEnd == self_idx >= frames

\* _switch_pause
SwitchPause ==
    /\ running' = ~running
    /\ pause_active' = ~pause_active

\* _reset_animation
ResetAnimation ==
    /\ self_idx' = 0
    /\ IF running THEN SwitchPause ELSE UNCHANGED <<running, pause_active>>

\* The event the for loop of _check_events is about to handle.
Pending == at = "events" /\ handled < Len(batch)
Event == batch[handled + 1]

\* Line 112: pygame.event.get() at the start of an iteration of run.
Poll ==
    /\ at = "poll"
    /\ batch' \in Batches
    /\ handled' = 0
    /\ began_at' = self_idx
    /\ at' = "events"
    /\ UNCHANGED <<simulation, frames, self_idx, running, debugging,
                   pause_active, shown>>

\* Lines 119-121: the P key.
KeyP ==
    /\ Pending
    /\ Event = "p"
    /\ SwitchPause
    /\ handled' = handled + 1
    /\ UNCHANGED <<simulation, frames, self_idx, debugging, shown, batch,
                   began_at, at>>

\* Lines 123-125: the R key.
KeyR ==
    /\ Pending
    /\ Event = "r"
    /\ ResetAnimation
    /\ handled' = handled + 1
    /\ UNCHANGED <<simulation, frames, debugging, shown, batch, began_at, at>>

\* Lines 127-129: the D key.
KeyD ==
    /\ Pending
    /\ Event = "d"
    /\ debugging' = ~debugging
    /\ handled' = handled + 1
    /\ UNCHANGED <<simulation, frames, self_idx, running, pause_active, shown,
                   batch, began_at, at>>

\* Lines 114-117: QUIT or the ESCAPE key; _quit ends the process.
Quit ==
    /\ Pending
    /\ Event = "quit"
    /\ at' = "exit"
    /\ UNCHANGED <<simulation, frames, self_idx, running, debugging,
                   pause_active, shown, batch, handled, began_at>>

\* Any other event matches none of the tests of lines 114-129.
OtherEvent ==
    /\ Pending
    /\ Event = "other"
    /\ handled' = handled + 1
    /\ UNCHANGED <<simulation, frames, self_idx, running, debugging,
                   pause_active, shown, batch, began_at, at>>

\* Lines 148-149, once the for loop of _check_events has ended.
Wrap ==
    /\ at = "events"
    /\ handled = Len(batch)
    /\ IF PastEnd THEN ResetAnimation
       ELSE UNCHANGED <<self_idx, running, pause_active>>
    /\ at' = "read"
    /\ UNCHANGED <<simulation, frames, debugging, shown, batch, handled,
                   began_at>>

\* Lines 151-153: self.data[self.idx] and self.time[self.idx]; an index
\* outside -len .. len - 1 raises IndexError, a negative one inside counts
\* from the end.
Read ==
    /\ at = "read"
    /\ IF self_idx >= frames \/ self_idx < -frames
       THEN at' = "error" /\ UNCHANGED shown
       ELSE at' = "tick" /\ shown' = self_idx % frames
    /\ UNCHANGED <<simulation, frames, self_idx, running, debugging,
                   pause_active, batch, handled, began_at>>

\* Lines 155-170: the frame is drawn; lines 166-167 advance the index.
Tick ==
    /\ at = "tick"
    /\ self_idx' = IF running THEN self_idx + 1 ELSE self_idx
    /\ at' = "poll"
    /\ UNCHANGED <<simulation, frames, running, debugging, pause_active,
                   shown, batch, handled, began_at>>

NextAnim ==
    \/ Poll
    \/ KeyP
    \/ KeyR
    \/ KeyD
    \/ Quit
    \/ OtherEvent
    \/ Wrap
    \/ Read
    \/ Tick

\* The viewer playing a loaded run.
SpecAnim == InitAnim /\ [][NextAnim]_vars

\* ------------------------------------------------------------- properties
Static(c) == particle_types[c] = 0
Dynamic(c) == particle_types[c] = 1
Sampled == pc \in {"csv", "pkl", "done"} \/ (pc = "error" /\ err = "OSError")
Exported(f) == f # "absent"

C2_BorderForceZero ==
    \A c \in Cells :
        IsBorder(c) => forces_then[c] = Zero /\ forces_now[c] = Zero

\* C2 witness: forces were computed on a grid whose border cells are
\* displaced and differ from their interior neighbours, and the interior
\* force is not 0.
C2_Witness ==
    /\ step >= 2
    /\ \E c \in Cells : IsBorder(c) /\ pos[1][c] # Zero
    /\ \E c \in Interior : forces_then[c] # Zero /\ IsFin(forces_then[c])
    /\ \E c \in Interior : forces_now[c] # Zero

\* C3: every sample index the exporter computes lies in 0 .. H - 1, for
\* every frame count including those above the history length, so that
\* indexing the time table and the history never raises IndexError.
C3_IdxInBounds ==
    /\ err # "IndexError"
    /\ \A k \in 1 .. Len(idx) : 0 <= idx[k] /\ idx[k] < n_steps
    /\ Sampled => Len(idx) = n_rows

\* C3 witness: more frames than history entries were sampled, the last
\* index being the last history entry.
C3_Witness ==
    /\ pc = "done"
    /\ n_rows > Len(time)
    /\ Len(time) > 1
    /\ idx[n_rows] = Len(time) - 1

\* C4: the export holds n_rows = floor(FPS * time[last]) frames, and row k
\* of the exported times and grid k of the exported displacements are the
\* rounded history entries at idx[k] = floor((k / n_rows) * H).
C4_FloorResampling ==
    Sampled =>
        /\ n_rows = FTrunc(FMul(Fin(FPS * Scale), time[Len(time)]))
        /\ Len(out_time) = n_rows
        /\ Len(out_pos) = n_rows
        /\ \A k \in 1 .. n_rows :
              /\ idx[k] = ((k - 1) * Len(time)) \div n_rows
              /\ out_time[k] = time[idx[k] + 1]
              /\ out_pos[k] = pos[idx[k] + 1]

\* C5: a frame count of 0 (a single-step run among others) is no error:
\* the resampling raises nothing and yields an empty time series and an
\* empty displacement array, which are then written.
C5_DegenerateResampling ==
    /\ (LoopDone /\ n_steps = 1) => NRows = 0
    /\ (pc \in {"csv", "pkl", "done", "error"} /\ n_rows = 0) =>
          /\ err \notin {"ValueError", "IndexError"}
          /\ idx = <<>>
          /\ out_time = <<>>
          /\ out_pos = <<>>
    /\ (pc = "done" /\ n_rows = 0) =>
          csv_file = "complete" /\ pkl_file = "complete"

\* C5 witness: a single-step run has finished with no frame exported.
C5_Witness ==
    /\ pc = "done"
    /\ n_steps = 1
    /\ Len(time) = 1
    /\ n_rows = 0
    /\ out_pos = <<>>

\* The configuration errors of the specification's taxonomy that the grids
\* and scalars of the model can show.
ConfigError ==
    \/ \E c \in Cells : Dynamic(c) /\ masses[c] = Zero
    \/ particle_separation.v <= 0
    \/ timestep.v <= 0
    \/ elastic_constant.v <= 0

\* C6: with a configuration error the run ends in an error state before
\* the first integration step: no iteration runs and nothing is exported.
C6_ConfigErrorFatal ==
    ConfigError =>
        /\ step <= 1
        /\ pc # "done"
        /\ ~Exported(csv_file)
        /\ ~Exported(pkl_file)

\* C7: once a division by zero has happened in an iteration the run is in
\* an error state and neither artifact is exported.
C7_NumericFaultAborts ==
    fault => pc = "error" /\ ~Exported(csv_file) /\ ~Exported(pkl_file)

\* C8: no artifact is written before the loop has completed step
\* n_steps - 1, and in every terminal state both artifacts have been
\* written or neither has.
C8_ExportAtomic ==
    /\ (Exported(csv_file) \/ Exported(pkl_file)) => step = n_steps
    /\ pc \in {"done", "error"} =>
          \/ csv_file = "complete" /\ pkl_file = "complete"
          \/ csv_file = "absent" /\ pkl_file = "absent"

\* C9: with every particle static, the displacement grid of every step
\* computed so far equals the initial displacement grid that was supplied
\* (or its rounding).
C9_AllStaticKeepsInitial ==
    (\A c \in Cells : Static(c)) =>
        \A s \in 1 .. Len(pos) :
            s <= step =>
                \/ pos[s] = initial_pos
                \/ pos[s] = [c \in Cells |->
                                FRound(initial_pos[c], DATAFRAME_DECIMALS)]

\* C10 as stated: one time row per exported frame, each exported time
\* greater than the one before it, the first being 0.
C10_StrictlyIncreasing ==
    (Sampled /\ timestep.v > 0) =>
        /\ Len(out_time) = n_rows
        /\ Len(out_pos) = n_rows
        /\ \A k \in 1 .. (n_rows - 1) : out_time[k].v < out_time[k + 1].v
        /\ n_rows >= 1 => out_time[1] = Zero

\* C10 amended: one time row per exported frame, no exported time smaller
\* than the one before it, the first being 0.
C10_NonDecreasing ==
    (Sampled /\ timestep.v > 0) =>
        /\ Len(out_time) = n_rows
        /\ Len(out_pos) = n_rows
        /\ \A k \in 1 .. (n_rows - 1) : out_time[k].v <= out_time[k + 1].v
        /\ n_rows >= 1 => out_time[1] = Zero

\* C10 witness: more frames than history entries were exported; two
\* consecutive rows repeat a time and two others increase.
C10_Witness ==
    /\ pc = "done"
    /\ timestep.v > 0
    /\ n_rows > Len(time)
    /\ \E k \in 1 .. (n_rows - 1) : out_time[k] = out_time[k + 1]
    /\ \E k \in 1 .. (n_rows - 1) : out_time[k].v < out_time[k + 1].v

\* The history is rounded in place by line 163 once the loop has ended.
Rounded == pc \notin {"call", "loop"}

\* The displacement the history holds for a cell that never moves.
Frozen(c) ==
    IF Rounded THEN FRound(initial_pos[c], DATAFRAME_DECIMALS)
    ELSE initial_pos[c]

HasSampled(r) ==
    r.pc \in {"csv", "pkl", "done"} \/ (r.pc = "error" /\ r.err = "OSError")

AfterOverrun == at \in {"read", "tick"} /\ began_at = frames

\* A pause key pressed an odd number of times after the last reset key of
\* the batch: the reset pauses, the pause keys after it start playback again.
RestartedByKeys ==
    \E i \in 1 .. Len(batch) :
        /\ batch[i] = "r"
        /\ \A j \in (i + 1) .. Len(batch) : batch[j] # "r"
        /\ Cardinality({j \in (i + 1) .. Len(batch) : batch[j] = "p"}) % 2 = 1

=============================================================================
